---- MODULE Spec2Model ----
(***************************************************************************)
(* Model of qutip/solver/result.py: the trajectory recorder (Result) and   *)
(* the two multi-trajectory aggregators (MultiTrajResult, which retains    *)
(* every trajectory, and MultiTrajResultAveraged, which keeps running      *)
(* sums).                                                                  *)
(*                                                                         *)
(* Numbers are exact rationals <<n, d>> (d > 0, lowest terms); a square    *)
(* root that is not rational is kept as the surd <<n, d, 2>>.  Floating    *)
(* point rounding is not modelled.  A state (ket) is a pair of integers,   *)
(* a density matrix a 4-tuple of rationals (row major).                    *)
(***************************************************************************)
EXTENDS Integers, Sequences, FiniteSets, TLC

\* ------------------------------------------------------------------ bounds
\* largest number of trajectories handed to an aggregator
MaxTraj == 2
\* largest number of Result.add calls on one recorder
MaxAdds == 3
\* largest number of processors registered through add_processor by a caller
MaxExtra == 1

\* ------------------------------------------------- python values, outcomes
None == [tag |-> "None"]
Ok(v) == [tag |-> "Value", val |-> v]
Raise(e) == [tag |-> "Error", exc |-> e]
IsNone(x) == x.tag = "None"
IsOk(x) == x.tag = "Value"
IsErr(x) == x.tag = "Error"

\* ------------------------------------------------------- exact arithmetic
Abs(n) == IF n < 0 THEN -n ELSE n

RECURSIVE GCD(_, _)
GCD(a, b) == IF b = 0 THEN a ELSE GCD(b, a % b)

\* the rational n/d in lowest terms (d # 0)
Rat(n, d) ==
    LET g == GCD(Abs(n), Abs(d))
        s == IF d < 0 THEN -1 ELSE 1
    IN  <<(s * n) \div g, (s * d) \div g>>

RInt(n) == <<n, 1>>
RAdd(a, b) == Rat(a[1] * b[2] + b[1] * a[2], a[2] * b[2])
RSub(a, b) == Rat(a[1] * b[2] - b[1] * a[2], a[2] * b[2])
RMul(a, b) == Rat(a[1] * b[1], a[2] * b[2])
RDivInt(a, n) == Rat(a[1], a[2] * n)

\* the integer r >= 0 with r * r = n, or -1 when n is not a perfect square
ISqrt(n) ==
    IF n < 0 THEN -1
    ELSE LET R == {r \in 0..n : r * r = n}
         IN  IF R = {} THEN -1 ELSE CHOOSE r \in R : TRUE

\* np.sqrt of a rational: exact when rational, otherwise the surd <<n, d, 2>>
\* (a negative radicand, numpy's nan, stays a surd with n < 0)
Sqrt(a) ==
    LET rn == ISqrt(a[1])
        rd == ISqrt(a[2])
    IN  IF rn >= 0 /\ rd >= 0 THEN <<rn, rd>> ELSE <<a[1], a[2], 2>>

\* elementwise operations on arrays (sequences of equal length)
VAdd(u, v) == [j \in 1..Len(u) |-> RAdd(u[j], v[j])]
VSquare(u) == [j \in 1..Len(u) |-> RMul(u[j], u[j])]
VDivInt(u, n) == [j \in 1..Len(u) |-> RDivInt(u[j], n)]

\* np.array(list of numbers)
NpArray(l) == [j \in 1..Len(l) |-> RInt(l[j])]

\* zip(a, b): pairs up to the shorter length
Min(a, b) == IF a < b THEN a ELSE b
ZipLen(a, b) == Min(Len(a), Len(b))

\* ----------------------------------------------------- states (Qobj kets)
\* the kets a solver hands to the recorder in this model
Kets == {<<1, 0>>, <<0, 1>>, <<1, 1>>}

\* level l of the three-level ladder the trajectories move on
Level(l) == IF l = 1 THEN <<1, 0>> ELSE IF l = 2 THEN <<0, 1>> ELSE <<1, 1>>

\* |psi><psi| as a row-major 2x2 matrix of rationals
proj(ket) ==
    <<RInt(ket[1] * ket[1]), RInt(ket[1] * ket[2]),
      RInt(ket[2] * ket[1]), RInt(ket[2] * ket[2])>>

MAdd(a, b) == [j \in 1..4 |-> RAdd(a[j], b[j])]
MDivInt(a, n) == [j \in 1..4 |-> RDivInt(a[j], n)]

\* <psi| diag(1, 2) |psi>: the expectation value of the one operator used
expect(ket) == ket[1] * ket[1] + 2 * ket[2] * ket[2]


\* ============================================================== Result
\* observable keys: the position in a list, or the name in a dict
Pos(i) == [kind |-> "pos", i |-> i, s |-> ""]
Name(s) == [kind |-> "name", i |-> -1, s |-> s]
NoKey == [kind |-> "none", i |-> -1, s |-> ""]

\* an e_op entry: a Qobj, a QobjEvo, a function f(t, state), or something
\* else (here an int), which is not supported
OpTypes == {"Qobj", "QobjEvo", "callable", "int"}

\* processors
EopProc(k) == [kind |-> "e_op", key |-> k, n |-> 0]
StoreStateProc == [kind |-> "store_state", key |-> NoKey, n |-> 0]
StoreFinalProc == [kind |-> "store_final_state", key |-> NoKey, n |-> 0]
ExtraProc(n) == [kind |-> "extra", key |-> NoKey, n |-> n]

\* mutation of e_ops_to_dict: a dict is enumerated as a list is
e_ops_to_dict_enumerated(e_ops) ==
    IF e_ops.form = "none" THEN <<>>
    ELSE IF e_ops.form \in {"list", "dict"}
        THEN [j \in 1..Len(e_ops.ops) |-> [k |-> Pos(j - 1), op |-> e_ops.ops[j]]]
    ELSE <<[k |-> Pos(0), op |-> e_ops.ops[1]]>>

\* Result._e_ops_to_dict: the dict as a sequence of (key, op) in dict order
e_ops_to_dict(e_ops) ==
    IF e_ops.form = "none" THEN <<>>
    ELSE IF e_ops.form = "list"
        THEN [j \in 1..Len(e_ops.ops) |-> [k |-> Pos(j - 1), op |-> e_ops.ops[j]]]
    ELSE IF e_ops.form = "dict"
        THEN [j \in 1..Len(e_ops.ops) |->
                 [k |-> Name(e_ops.names[j]), op |-> e_ops.ops[j]]]
    ELSE <<[k |-> Pos(0), op |-> e_ops.ops[1]]>>

\* mutation of e_op_func: an entry of unknown type is taken as a callable,
\* so that the failure would only show at the first evaluation
e_op_func_lenient(e_op) ==
    IF e_op = "Qobj" THEN Ok("QobjExpectEop")
    ELSE IF e_op = "QobjEvo" THEN Ok("QobjEvo.expect")
    ELSE Ok("callable")

\* Result._e_op_func: the function that evaluates an e_op, or TypeError
e_op_func(e_op) ==
    IF e_op = "Qobj" THEN Ok("QobjExpectEop")
    ELSE IF e_op = "QobjEvo" THEN Ok("QobjEvo.expect")
    ELSE IF e_op = "callable" THEN Ok("callable")
    ELSE Raise("TypeError")

\* the value f(t, state) of an evaluator: the expectation value of the
\* operator, of the time-dependent operator t * op, and the function
\* f(t, state) = t
EvalF(f, t, ket) ==
    IF f = "QobjExpectEop" THEN expect(ket)
    ELSE IF f = "QobjEvo.expect" THEN t * expect(ket)
    ELSE t

\* mutation of add_processor: the flag of the last registration replaces
\* the copy requirement
add_processor_overwrite(r, f, requires_copy) ==
    [r EXCEPT !.state_processors = Append(@, f),
              !.state_processors_require_copy = requires_copy]

\* Result.add_processor
add_processor(r, f, requires_copy) ==
    [r EXCEPT !.state_processors = Append(@, f),
              !.state_processors_require_copy = @ \/ requires_copy]

\* mutation of post_init: an unset store_states counts as False
post_init_no_default(r) ==
    LET store_states == r.options.store_states = "True"
        store_final_state == r.options.store_final_state
        r1 == IF store_states THEN add_processor(r, StoreStateProc, TRUE) ELSE r
    IN  IF store_states \/ store_final_state
        THEN add_processor(r1, StoreFinalProc, TRUE)
        ELSE r1

\* mutation of post_init: the final state is kept only when asked for
post_init_final_on_request(r) ==
    LET store_states ==
            IF r.options.store_states = "None" THEN Len(r.e_ops) = 0
            ELSE r.options.store_states = "True"
        store_final_state == r.options.store_final_state
        r1 == IF store_states THEN add_processor(r, StoreStateProc, TRUE) ELSE r
    IN  IF store_final_state
        THEN add_processor(r1, StoreFinalProc, TRUE)
        ELSE r1

\* Result._post_init
post_init(r) ==
    LET store_states ==
            IF r.options.store_states = "None" THEN Len(r.e_ops) = 0
            ELSE r.options.store_states = "True"
        store_final_state == r.options.store_final_state
        r1 == IF store_states THEN add_processor(r, StoreStateProc, TRUE) ELSE r
    IN  IF store_states \/ store_final_state
        THEN add_processor(r1, StoreFinalProc, TRUE)
        ELSE r1

\* the loop of Result.__init__ over raw_ops (lines 159-162), from entry i
RECURSIVE InitLoop(_, _, _)
InitLoop(r, raw_ops, i) ==
    IF i > Len(raw_ops) THEN Ok(r)
    ELSE LET f == e_op_func(raw_ops[i].op)
         IN  IF IsErr(f) THEN f
             ELSE InitLoop(
                    add_processor(
                        [r EXCEPT !.e_ops = Append(@, [k |-> raw_ops[i].k,
                                                       op |-> raw_ops[i].op,
                                                       f |-> f.val])],
                        EopProc(raw_ops[i].k), FALSE),
                    raw_ops, i + 1)

\* Result.__init__: the constructed object, or the error raised
Result_init(e_ops, options) ==
    LET raw_ops == e_ops_to_dict(e_ops)
        r0 == [state_processors |-> <<>>,
               state_processors_require_copy |-> FALSE,
               e_keys |-> [j \in 1..Len(raw_ops) |-> raw_ops[j].k],
               e_data |-> [j \in 1..Len(raw_ops) |-> <<>>],
               e_ops |-> <<>>,
               options |-> options,
               times |-> <<>>,
               states |-> <<>>,
               final_state |-> None,
               ncopies |-> 0,
               log |-> <<>>,
               ncopy |-> 0]
        r1 == InitLoop(r0, raw_ops, 1)
    IN  IF IsErr(r1) THEN r1 ELSE Ok(post_init(r1.val))

\* Result.expect: list(self.e_data.values()), the very lists of e_data
Result_expect(r) == r.e_data

\* Result._pre_copy: a new object with the same content
pre_copy(r, state) == [id |-> r.ncopies + 1, ket |-> state.ket]

\* the index of key k in the key order of r (0 when absent)
KeyIndex(r, k) ==
    LET I == {j \in 1..Len(r.e_keys) : r.e_keys[j] = k}
    IN  IF I = {} THEN 0 ELSE CHOOSE j \in I : TRUE

\* one processor call op(t, state): ExpectOp._store, _store_state,
\* _store_final_state, or a caller's processor (which leaves the recorder
\* alone)
CallProcessor(r, p, t, state) ==
    LET logged == [r EXCEPT !.log = Append(@, [proc |-> p, sid |-> state.id,
                                               ntimes |-> Len(r.times)])]
    IN  IF p.kind = "e_op"
        THEN LET j == KeyIndex(r, p.key)
             IN  [logged EXCEPT !.e_data[j] =
                      Append(@, EvalF(r.e_ops[j].f, t, state.ket))]
        ELSE IF p.kind = "store_state"
        THEN [logged EXCEPT !.states = Append(@, state)]
        ELSE IF p.kind = "store_final_state"
        THEN [logged EXCEPT !.final_state = Ok(state)]
        ELSE logged

\* the loop of Result.add over the processors (lines 290-291), from i
RECURSIVE RunProcessors(_, _, _, _)
RunProcessors(r, i, t, state) ==
    IF i > Len(r.state_processors) THEN r
    ELSE RunProcessors(CallProcessor(r, r.state_processors[i], t, state),
                       i + 1, t, state)

\* mutation of Result_add: one copy of the state per registered processor
Result_add_copy_each(r, t, state) ==
    LET n == Len(r.state_processors)
        r1 == [r EXCEPT !.times = Append(@, t), !.log = <<>>, !.ncopy = 0]
        r2 == IF r.state_processors_require_copy
              THEN [r1 EXCEPT !.ncopies = @ + n, !.ncopy = @ + n]
              ELSE r1
        st == IF r.state_processors_require_copy THEN pre_copy(r, state)
              ELSE state
    IN  RunProcessors(r2, 1, t, st)

\* Result.add
Result_add(r, t, state) ==
    LET r1 == [r EXCEPT !.times = Append(@, t), !.log = <<>>, !.ncopy = 0]
        r2 == IF r.state_processors_require_copy
              THEN [r1 EXCEPT !.ncopies = @ + 1, !.ncopy = @ + 1]
              ELSE r1
        st == IF r.state_processors_require_copy THEN pre_copy(r, state)
              ELSE state
    IN  RunProcessors(r2, 1, t, st)


\* ======================================================= trajectories
\* the time grid of a run
tlist == <<0, 1, 2>>

\* the number of collapse operators handed to an aggregator
NumCOps == 2

\* the state object the solver passes to Result.add (its working buffer)
SolverState(ket) == [id |-> 0, ket |-> ket]

\* the recorder after the solver has added the states of path p at the
\* first n times of the grid
RECURSIVE Record(_, _, _)
Record(r, p, n) ==
    IF n = 0 THEN r
    ELSE Result_add(Record(r, p, n - 1), tlist[n], SolverState(Level(p[n])))

\* the collapse events of a run along path p: a step up is a collapse of
\* channel 0, a step down one of channel 1, at the time the new level is seen
RECURSIVE Collapses(_, _)
Collapses(p, n) ==
    IF n <= 1 THEN <<>>
    ELSE LET before == Collapses(p, n - 1)
         IN  IF p[n] > p[n - 1] THEN Append(before, [t |-> tlist[n], which |-> 0])
             ELSE IF p[n] < p[n - 1]
                 THEN Append(before, [t |-> tlist[n], which |-> 1])
             ELSE before

\* what an aggregator reads of a finished recorder
Trajectory(r, collapse) ==
    [times |-> r.times,
     states |-> r.states,
     final_state |-> r.final_state,
     e_keys |-> r.e_keys,
     expect |-> Result_expect(r),
     collapse |-> collapse]

\* the paths of the runs: the level stays where it starts, or moves one
\* level per step in one direction, within the three levels
Paths ==
    {p \in [1..Len(tlist) -> 1..3] :
        \E dir \in {-1, 0, 1} :
            \A j \in 1..Len(tlist) : p[j] = p[1] + dir * (j - 1)}

\* the observables of a batch: an operator and the function f(t, state) = t
BatchEOps == [form |-> "list", ops |-> <<"Qobj", "callable">>, names |-> <<>>]

\* the options of a batch: every state kept, or nothing kept
BatchOptions ==
    {[store_states |-> "True", store_final_state |-> FALSE],
     [store_states |-> "None", store_final_state |-> FALSE]}

\* the finished run along path p under the options o
Run(o, p) ==
    Trajectory(Record(Result_init(BatchEOps, o).val, p, Len(tlist)),
               Collapses(p, Len(tlist)))

\* ===================================================== numpy on lists
\* python list slicing l[:n]
SliceTo(l, n) ==
    IF n >= 0 THEN SubSeq(l, 1, Min(n, Len(l)))
    ELSE SubSeq(l, 1, IF Len(l) + n > 0 THEN Len(l) + n ELSE 0)

\* np.stack of a list of lists of numbers
np_stack(rows) ==
    IF Len(rows) = 0 THEN Raise("ValueError")
    ELSE IF \E i \in 1..Len(rows) : Len(rows[i]) # Len(rows[1])
        THEN Raise("ValueError")
    ELSE Ok([i \in 1..Len(rows) |-> NpArray(rows[i])])

\* the sum of column j of a stacked array, over the first n rows
RECURSIVE ColSum(_, _, _)
ColSum(a, j, n) == IF n = 0 THEN RInt(0) ELSE RAdd(ColSum(a, j, n - 1), a[n][j])

\* np.mean(a, axis=0)
np_mean(a) == [j \in 1..Len(a[1]) |-> RDivInt(ColSum(a, j, Len(a)), Len(a))]

\* np.std(a, axis=0): sqrt(mean(abs(a - mean(a)) ** 2))
np_std(a) ==
    LET m == np_mean(a)
        dev2 == [i \in 1..Len(a) |->
                    [j \in 1..Len(a[1]) |->
                        RMul(RSub(a[i][j], m[j]), RSub(a[i][j], m[j]))]]
    IN  [j \in 1..Len(a[1]) |-> Sqrt(RDivInt(ColSum(dev2, j, Len(a)), Len(a)))]

\* a + b for two one-dimensional arrays, with numpy's broadcasting
np_add(a, b) ==
    IF Len(a) = Len(b) THEN Ok(VAdd(a, b))
    ELSE IF Len(a) = 1 THEN Ok([j \in 1..Len(b) |-> RAdd(a[1], b[j])])
    ELSE IF Len(b) = 1 THEN Ok([j \in 1..Len(a) |-> RAdd(a[j], b[1])])
    ELSE Raise("ValueError")

\* np.histogram(ts, edges)[0]: the last bin is closed on the right
np_histogram(ts, edges) ==
    [j \in 1..(IF Len(edges) > 0 THEN Len(edges) - 1 ELSE 0) |->
        Cardinality({i \in 1..Len(ts) :
            /\ edges[j] <= ts[i]
            /\ \/ ts[i] < edges[j + 1]
               \/ j = Len(edges) - 1 /\ ts[i] = edges[j + 1]})]

\* np.diff(edges)
np_diff(edges) ==
    [j \in 1..(IF Len(edges) > 0 THEN Len(edges) - 1 ELSE 0) |->
        edges[j + 1] - edges[j]]


\* =================================================== aggregators, shared
\* _to_dm is set to True by both constructors and never changed
to_dm == TRUE

\* the stored state as it enters a sum: state.proj() when _to_dm, else state
dm(state) == IF to_dm THEN proj(state.ket) ELSE state.ket

\* traj.expect[k] for a key k of e_ops: expect is a list
ExpectOf(traj, k) ==
    IF k.kind # "pos" THEN Raise("TypeError")
    ELSE IF k.i >= Len(traj.expect) THEN Raise("IndexError")
    ELSE Ok(traj.expect[k.i + 1])

\* the first error among a sequence of outcomes, or None
FirstErr(outs) ==
    LET E == {i \in 1..Len(outs) : IsErr(outs[i])}
    IN  IF E = {} THEN None ELSE outs[CHOOSE i \in E : \A j \in E : i <= j]

\* sum(ms) / n for a list of matrices (python's sum starts from the int 0)
RECURSIVE MSum(_, _)
MSum(ms, n) == IF n = 1 THEN ms[1] ELSE MAdd(MSum(ms, n - 1), ms[n])

\* col_times / col_which: the times (field 0) or channels (field 1) of each
\* trajectory's collapses
ColField(collapse, which) ==
    [i \in 1..Len(collapse) |->
        [j \in 1..Len(collapse[i]) |->
            IF which THEN collapse[i][j].which ELSE collapse[i][j].t]]

\* the collapse times of channel c over all collapse lists, in order
RECURSIVE ChannelTimes(_, _, _)
ChannelTimes(collapse, c, n) ==
    IF n = 0 THEN <<>>
    ELSE LET mine == SelectSeq(collapse[n], LAMBDA e : e.which = c)
         IN  ChannelTimes(collapse, c, n - 1) \o
             [j \in 1..Len(mine) |-> mine[j].t]

\* mutation of Photocurrent: one histogram per channel seen in a collapse,
\* not per channel of the aggregator
Photocurrent_seen_channels(collapse, times, num_c_ops, n) ==
    LET seen == {c \in 1..num_c_ops :
                    Len(ChannelTimes(collapse, c - 1, Len(collapse))) > 0}
    IN  [c \in 1..Cardinality(seen) |->
            LET h == np_histogram(ChannelTimes(collapse, c - 1, Len(collapse)), times)
                d == np_diff(times)
            IN  [j \in 1..Len(h) |-> RDivInt(Rat(h[j], d[j]), n)]]

\* mutation of Photocurrent: the counts are not divided by the bin widths
Photocurrent_per_bin(collapse, times, num_c_ops, n) ==
    [c \in 1..num_c_ops |->
        LET h == np_histogram(ChannelTimes(collapse, c - 1, Len(collapse)), times)
        IN  [j \in 1..Len(h) |-> RDivInt(RInt(h[j]), n)]]

\* the body of photocurrent once tlist and the collapses are at hand
Photocurrent(collapse, times, num_c_ops, n) ==
    [c \in 1..num_c_ops |->
        LET h == np_histogram(ChannelTimes(collapse, c - 1, Len(collapse)), times)
            d == np_diff(times)
        IN  [j \in 1..Len(h) |-> RDivInt(Rat(h[j], d[j]), n)]]

\* ====================================================== MultiTrajResult
MultiTrajResult_init(num_c_ops) ==
    [trajectories |-> <<>>, num_c_ops |-> num_c_ops]

MultiTrajResult_add(self, one_traj) ==
    [self EXCEPT !.trajectories = Append(@, one_traj)]

MultiTrajResult_runs_states(self) ==
    Ok([i \in 1..Len(self.trajectories) |-> self.trajectories[i].states])

\* the loop of average_states over trajectories[1:], from trajectory i
RECURSIVE FoldStates(_, _, _)
FoldStates(finals, trajs, i) ==
    IF i > Len(trajs) THEN finals
    ELSE FoldStates([j \in 1..ZipLen(finals, trajs[i].states) |->
                        MAdd(dm(trajs[i].states[j]), finals[j])],
                    trajs, i + 1)

MultiTrajResult_average_states(self) ==
    LET trajs == self.trajectories
    IN  IF Len(trajs) = 0 THEN Raise("IndexError")
        ELSE LET first == [j \in 1..Len(trajs[1].states) |-> dm(trajs[1].states[j])]
                 finals == FoldStates(first, trajs, 2)
             IN  Ok([j \in 1..Len(finals) |-> MDivInt(finals[j], Len(trajs))])

MultiTrajResult_runs_final_states(self) ==
    Ok([i \in 1..Len(self.trajectories) |-> self.trajectories[i].final_state])

MultiTrajResult_average_final_state(self) ==
    LET trajs == self.trajectories
    IN  IF \E i \in 1..Len(trajs) : IsNone(trajs[i].final_state)
        THEN Raise("AttributeError")
        ELSE IF Len(trajs) = 0 THEN Raise("ZeroDivisionError")
        ELSE Ok(MDivInt(MSum([i \in 1..Len(trajs) |-> dm(trajs[i].final_state.val)],
                             Len(trajs)),
                        Len(trajs)))

MultiTrajResult_steady_state(self) ==
    LET avg == MultiTrajResult_average_states(self)
    IN  IF IsErr(avg) THEN avg
        ELSE IF Len(avg.val) = 0 THEN Raise("ZeroDivisionError")
        ELSE Ok(MDivInt(MSum(avg.val, Len(avg.val)), Len(avg.val)))

\* {k: stat(np.stack([traj.expect[k] for traj in trajs])) for k in
\*  self.trajectories[0].e_ops}, stat being np.mean, np.std or nothing:
\* a dict as a sequence of (key, value)
ExpectDict(self, trajs, stat) ==
    IF Len(self.trajectories) = 0 THEN Raise("IndexError")
    ELSE LET keys == self.trajectories[1].e_keys
             entry(k) ==
                 LET rows == [i \in 1..Len(trajs) |-> ExpectOf(trajs[i], k)]
                     bad == FirstErr(rows)
                     st == np_stack([i \in 1..Len(trajs) |-> rows[i].val])
                 IN  IF IsErr(bad) THEN bad
                     ELSE IF IsErr(st) THEN st
                     ELSE Ok([k |-> k,
                              v |-> IF stat = "mean" THEN np_mean(st.val)
                                    ELSE IF stat = "std" THEN np_std(st.val)
                                    ELSE st.val])
             entries == [j \in 1..Len(keys) |-> entry(keys[j])]
             bad == FirstErr(entries)
         IN  IF IsErr(bad) THEN bad
             ELSE Ok([j \in 1..Len(keys) |-> entries[j].val])

MultiTrajResult_average_expect(self) ==
    ExpectDict(self, self.trajectories, "mean")

MultiTrajResult_std_expect(self) ==
    ExpectDict(self, self.trajectories, "std")

MultiTrajResult_runs_expect(self) ==
    ExpectDict(self, self.trajectories, "stack")

MultiTrajResult_expect_traj_avg(self, ntraj) ==
    ExpectDict(self, SliceTo(self.trajectories, ntraj), "std")

MultiTrajResult_expect_traj_std(self, ntraj) ==
    ExpectDict(self, SliceTo(self.trajectories, ntraj), "std")

MultiTrajResult_collapse(self) ==
    [i \in 1..Len(self.trajectories) |-> self.trajectories[i].collapse]

MultiTrajResult_col_times(self) == ColField(MultiTrajResult_collapse(self), FALSE)

MultiTrajResult_col_which(self) == ColField(MultiTrajResult_collapse(self), TRUE)

MultiTrajResult_photocurrent(self) ==
    IF Len(self.trajectories) = 0 THEN Raise("IndexError")
    ELSE Ok(Photocurrent(MultiTrajResult_collapse(self),
                         self.trajectories[1].times,
                         self.num_c_ops, Len(self.trajectories)))

MultiTrajResult_num_traj(self) == Len(self.trajectories)


\* ============================================== MultiTrajResultAveraged
MultiTrajResultAveraged_init(num_c_ops) ==
    [trajectories |-> None,
     sum_states |-> None,
     sum_last_states |-> None,
     sum_expect |-> None,
     sum2_expect |-> None,
     num_c_ops |-> num_c_ops,
     num |-> 0,
     collapse |-> <<>>]

\* python truth of a field holding None or a list, and None or an object
TrueList(x) == IsOk(x) /\ Len(x.val) > 0
TrueObj(x) == IsOk(x)

\* mutation of SumExpectStep: the new arrays replace the running sums
SumExpectStep_overwrite(acc, one_traj, squared) ==
    Ok([i \in 1..Len(acc) |->
           IF squared THEN VSquare(NpArray(one_traj.expect[i]))
           ELSE NpArray(one_traj.expect[i])])

\* [acc[i] + f(one_traj.expect[i]) for i in range(len(acc))]
SumExpectStep(acc, one_traj, squared) ==
    LET term(i) ==
            IF i > Len(one_traj.expect) THEN Raise("IndexError")
            ELSE np_add(acc[i],
                        IF squared THEN VSquare(NpArray(one_traj.expect[i]))
                        ELSE NpArray(one_traj.expect[i]))
        terms == [i \in 1..Len(acc) |-> term(i)]
        bad == FirstErr(terms)
    IN  IF IsErr(bad) THEN bad ELSE Ok([i \in 1..Len(acc) |-> terms[i].val])

\* the first call of add (lines 651-666)
AddFirst(self, one_traj) ==
    [self EXCEPT
        !.trajectories = Ok(one_traj),
        !.sum_states =
            IF to_dm /\ Len(one_traj.states) > 0
            THEN Ok([j \in 1..Len(one_traj.states) |-> dm(one_traj.states[j])])
            ELSE Ok(one_traj.states),
        !.sum_last_states =
            IF to_dm /\ TrueObj(one_traj.final_state)
            THEN Ok(dm(one_traj.final_state.val))
            ELSE one_traj.final_state,
        !.sum_expect =
            Ok([i \in 1..Len(one_traj.expect) |-> NpArray(one_traj.expect[i])]),
        !.sum2_expect =
            Ok([i \in 1..Len(one_traj.expect) |->
                   VSquare(NpArray(one_traj.expect[i]))])]

\* mutation of AddCount: the newest collapse list is put first
AddCount_newest_first(self, one_traj) ==
    [self EXCEPT !.collapse = <<one_traj.collapse>> \o @, !.num = @ + 1]

\* the last two statements of add (lines 689-690)
AddCount(self, one_traj) ==
    [self EXCEPT !.collapse = Append(@, one_traj.collapse), !.num = @ + 1]

\* mutation of AddLater: the final state of a later trajectory is not summed
AddLater_without_final(self, one_traj) ==
    LET s1 == IF TrueList(self.sum_states)
              THEN [self EXCEPT !.sum_states =
                       Ok([j \in 1..ZipLen(self.sum_states.val, one_traj.states) |->
                              MAdd(dm(one_traj.states[j]), self.sum_states.val[j])])]
              ELSE self
        e1 == SumExpectStep(self.sum_expect.val, one_traj, FALSE)
        e2 == SumExpectStep(self.sum2_expect.val, one_traj, TRUE)
    IN  IF ~TrueList(self.sum_expect)
            THEN [self |-> AddCount(s1, one_traj), out |-> None]
        ELSE IF IsErr(e1) THEN [self |-> s1, out |-> e1]
        ELSE IF IsErr(e2)
            THEN [self |-> [s1 EXCEPT !.sum_expect = e1], out |-> e2]
        ELSE [self |-> AddCount([s1 EXCEPT !.sum_expect = e1, !.sum2_expect = e2],
                                one_traj),
              out |-> None]

\* mutation of AddLater: the final state of a later trajectory replaces the
\* running sum
AddLater_final_replaces(self, one_traj) ==
    LET s1 == IF TrueList(self.sum_states)
              THEN [self EXCEPT !.sum_states =
                       Ok([j \in 1..ZipLen(self.sum_states.val, one_traj.states) |->
                              MAdd(dm(one_traj.states[j]), self.sum_states.val[j])])]
              ELSE self
        last_fails == TrueObj(self.sum_last_states) /\ IsNone(one_traj.final_state)
        s2 == IF TrueObj(self.sum_last_states)
              THEN [s1 EXCEPT !.sum_last_states =
                       Ok(dm(one_traj.final_state.val))]
              ELSE s1
        e1 == SumExpectStep(self.sum_expect.val, one_traj, FALSE)
        e2 == SumExpectStep(self.sum2_expect.val, one_traj, TRUE)
    IN  IF last_fails THEN [self |-> s1, out |-> Raise("AttributeError")]
        ELSE IF ~TrueList(self.sum_expect)
            THEN [self |-> AddCount(s2, one_traj), out |-> None]
        ELSE IF IsErr(e1) THEN [self |-> s2, out |-> e1]
        ELSE IF IsErr(e2)
            THEN [self |-> [s2 EXCEPT !.sum_expect = e1], out |-> e2]
        ELSE [self |-> AddCount([s2 EXCEPT !.sum_expect = e1, !.sum2_expect = e2],
                                one_traj),
              out |-> None]

\* a later call of add (lines 667-688), statement by statement: the object
\* as the call leaves it and the outcome of the call
AddLater(self, one_traj) ==
    LET s1 == IF TrueList(self.sum_states)
              THEN [self EXCEPT !.sum_states =
                       Ok([j \in 1..ZipLen(self.sum_states.val, one_traj.states) |->
                              MAdd(dm(one_traj.states[j]), self.sum_states.val[j])])]
              ELSE self
        last_fails == TrueObj(self.sum_last_states) /\ IsNone(one_traj.final_state)
        s2 == IF TrueObj(self.sum_last_states)
              THEN [s1 EXCEPT !.sum_last_states =
                       Ok(MAdd(self.sum_last_states.val,
                               dm(one_traj.final_state.val)))]
              ELSE s1
        e1 == SumExpectStep(self.sum_expect.val, one_traj, FALSE)
        e2 == SumExpectStep(self.sum2_expect.val, one_traj, TRUE)
    IN  IF last_fails THEN [self |-> s1, out |-> Raise("AttributeError")]
        ELSE IF ~TrueList(self.sum_expect)
            THEN [self |-> AddCount(s2, one_traj), out |-> None]
        ELSE IF IsErr(e1) THEN [self |-> s2, out |-> e1]
        ELSE IF IsErr(e2)
            THEN [self |-> [s2 EXCEPT !.sum_expect = e1], out |-> e2]
        ELSE [self |-> AddCount([s2 EXCEPT !.sum_expect = e1, !.sum2_expect = e2],
                                one_traj),
              out |-> None]

\* mutation of MultiTrajResultAveraged_add: every trajectory added becomes
\* the template
MultiTrajResultAveraged_add_keeps_last(self, one_traj) ==
    LET a == IF self.num = 0
             THEN [self |-> AddCount(AddFirst(self, one_traj), one_traj),
                   out |-> None]
             ELSE AddLater(self, one_traj)
    IN  [a EXCEPT !.self.trajectories = Ok(one_traj)]

\* MultiTrajResultAveraged.add
MultiTrajResultAveraged_add(self, one_traj) ==
    IF self.num = 0
    THEN [self |-> AddCount(AddFirst(self, one_traj), one_traj), out |-> None]
    ELSE AddLater(self, one_traj)

MultiTrajResultAveraged_runs_states(self) == None

MultiTrajResultAveraged_average_states(self) ==
    IF IsNone(self.sum_states) THEN Raise("TypeError")
    ELSE IF Len(self.sum_states.val) > 0 /\ self.num = 0
        THEN Raise("ZeroDivisionError")
    ELSE Ok([j \in 1..Len(self.sum_states.val) |->
                MDivInt(self.sum_states.val[j], self.num)])

MultiTrajResultAveraged_runs_final_states(self) == None

\* mutation of average_final_state: None is handed back when nothing was
\* summed
MultiTrajResultAveraged_average_final_state_silent(self) ==
    IF IsNone(self.sum_last_states) THEN None
    ELSE IF self.num = 0 THEN Raise("ZeroDivisionError")
    ELSE Ok(MDivInt(self.sum_last_states.val, self.num))

MultiTrajResultAveraged_average_final_state(self) ==
    IF IsNone(self.sum_last_states) THEN Raise("TypeError")
    ELSE IF self.num = 0 THEN Raise("ZeroDivisionError")
    ELSE Ok(MDivInt(self.sum_last_states.val, self.num))

MultiTrajResultAveraged_steady_state(self) ==
    LET avg == self.sum_states
    IN  IF IsNone(avg) THEN Raise("TypeError")
        ELSE IF Len(avg.val) = 0 THEN Raise("ZeroDivisionError")
        ELSE Ok(MDivInt(MSum(avg.val, Len(avg.val)), Len(avg.val)))

MultiTrajResultAveraged_average_expect(self) ==
    IF IsNone(self.sum_expect) THEN Raise("TypeError")
    ELSE IF Len(self.sum_expect.val) > 0 /\ self.num = 0
        THEN Raise("ZeroDivisionError")
    ELSE Ok([i \in 1..Len(self.sum_expect.val) |->
                VDivInt(self.sum_expect.val[i], self.num)])

\* mutation of std_expect: the mean is not squared
MultiTrajResultAveraged_std_expect_unsquared(self) ==
    IF IsNone(self.sum_expect) THEN Raise("TypeError")
    ELSE IF Len(self.sum_expect.val) > 0 /\ self.num = 0
        THEN Raise("ZeroDivisionError")
    ELSE Ok([i \in 1..Len(self.sum_expect.val) |->
                [j \in 1..Len(self.sum_expect.val[i]) |->
                    LET mean == RDivInt(self.sum_expect.val[i][j], self.num)
                    IN  Sqrt(RSub(RDivInt(self.sum2_expect.val[i][j], self.num),
                                  mean))]])

MultiTrajResultAveraged_std_expect(self) ==
    IF IsNone(self.sum_expect) THEN Raise("TypeError")
    ELSE IF Len(self.sum_expect.val) > 0 /\ self.num = 0
        THEN Raise("ZeroDivisionError")
    ELSE Ok([i \in 1..Len(self.sum_expect.val) |->
                [j \in 1..Len(self.sum_expect.val[i]) |->
                    LET mean == RDivInt(self.sum_expect.val[i][j], self.num)
                    IN  Sqrt(RSub(RDivInt(self.sum2_expect.val[i][j], self.num),
                                  RMul(mean, mean)))]])

MultiTrajResultAveraged_runs_expect(self) == None

\* mutation of expect_traj_avg: the average over all trajectories is returned
MultiTrajResultAveraged_expect_traj_avg_all(self, ntraj) ==
    MultiTrajResultAveraged_average_expect(self)

MultiTrajResultAveraged_expect_traj_avg(self, ntraj) == None

MultiTrajResultAveraged_expect_traj_std(self, ntraj) == None

MultiTrajResultAveraged_collapse(self) == self.collapse

MultiTrajResultAveraged_col_times(self) == ColField(self.collapse, FALSE)

MultiTrajResultAveraged_col_which(self) == ColField(self.collapse, TRUE)

MultiTrajResultAveraged_photocurrent(self) ==
    IF IsNone(self.trajectories) THEN Raise("AttributeError")
    ELSE Ok(Photocurrent(self.collapse, self.trajectories.val.times,
                         self.num_c_ops, self.num))

MultiTrajResultAveraged_num_traj(self) == self.num


\* ================================================================ state
VARIABLES
    options,    \* the options every recorder of the batch is built with
    multi,      \* a MultiTrajResult
    averaged,   \* a MultiTrajResultAveraged fed the same trajectories
    op,         \* the last operation called on an aggregator
    ret,        \* what that operation returned or raised
    ctor,       \* the arguments of the Result constructor call
    result      \* the Result that call built, or the error it raised

aggvars == <<options, multi, averaged, op, ret>>
resvars == <<ctor, result>>
vars == <<options, multi, averaged, op, ret, ctor, result>>

Call(obj, name, k) == [obj |-> obj, name |-> name, k |-> k]

\* the ntraj arguments tried for the windowed queries
NTraj == {-1} \cup 1..MaxTraj

\* ------------------------------------------------------ the aggregators
AggInit ==
    /\ options \in BatchOptions
    /\ multi = MultiTrajResult_init(NumCOps)
    /\ averaged = MultiTrajResultAveraged_init(NumCOps)
    /\ op = Call("", "init", 0)
    /\ ret = None

\* the scheduler hands one finished trajectory to both aggregators
Add(one_traj) ==
    /\ Len(multi.trajectories) < MaxTraj
    /\ multi' = MultiTrajResult_add(multi, one_traj)
    /\ LET a == MultiTrajResultAveraged_add(averaged, one_traj)
       IN  averaged' = a.self /\ ret' = a.out
    /\ op' = Call("both", "add", 0)
    /\ UNCHANGED <<options, ctor, result>>

\* a read of average_states that divides the running sum in place
Read_in_place(obj, name, k, value) ==
    /\ op' = Call(obj, name, k)
    /\ ret' = value
    /\ averaged' = IF obj = "averaged" /\ name = "average_states" /\ IsOk(value)
                   THEN [averaged EXCEPT !.sum_states = value]
                   ELSE averaged
    /\ UNCHANGED <<options, multi, ctor, result>>

\* a read of an aggregator: the value is returned, the objects stay
Read(obj, name, k, value) ==
    /\ op' = Call(obj, name, k)
    /\ ret' = value
    /\ UNCHANGED <<options, multi, averaged, ctor, result>>

M_runs_states == Read("multi", "runs_states", 0, MultiTrajResult_runs_states(multi))
M_average_states ==
    Read("multi", "average_states", 0, MultiTrajResult_average_states(multi))
M_runs_final_states ==
    Read("multi", "runs_final_states", 0, MultiTrajResult_runs_final_states(multi))
M_average_final_state ==
    Read("multi", "average_final_state", 0,
         MultiTrajResult_average_final_state(multi))
M_steady_state == Read("multi", "steady_state", 0, MultiTrajResult_steady_state(multi))
M_average_expect ==
    Read("multi", "average_expect", 0, MultiTrajResult_average_expect(multi))
M_std_expect == Read("multi", "std_expect", 0, MultiTrajResult_std_expect(multi))
M_runs_expect == Read("multi", "runs_expect", 0, MultiTrajResult_runs_expect(multi))
M_expect_traj_avg(k) ==
    Read("multi", "expect_traj_avg", k, MultiTrajResult_expect_traj_avg(multi, k))
M_expect_traj_std(k) ==
    Read("multi", "expect_traj_std", k, MultiTrajResult_expect_traj_std(multi, k))
M_photocurrent == Read("multi", "photocurrent", 0, MultiTrajResult_photocurrent(multi))

A_runs_states ==
    Read("averaged", "runs_states", 0, MultiTrajResultAveraged_runs_states(averaged))
A_average_states ==
    Read("averaged", "average_states", 0,
         MultiTrajResultAveraged_average_states(averaged))
A_runs_final_states ==
    Read("averaged", "runs_final_states", 0,
         MultiTrajResultAveraged_runs_final_states(averaged))
A_average_final_state ==
    Read("averaged", "average_final_state", 0,
         MultiTrajResultAveraged_average_final_state(averaged))
A_steady_state ==
    Read("averaged", "steady_state", 0, MultiTrajResultAveraged_steady_state(averaged))
A_average_expect ==
    Read("averaged", "average_expect", 0,
         MultiTrajResultAveraged_average_expect(averaged))
A_std_expect ==
    Read("averaged", "std_expect", 0, MultiTrajResultAveraged_std_expect(averaged))
A_runs_expect ==
    Read("averaged", "runs_expect", 0, MultiTrajResultAveraged_runs_expect(averaged))
A_expect_traj_avg(k) ==
    Read("averaged", "expect_traj_avg", k,
         MultiTrajResultAveraged_expect_traj_avg(averaged, k))
A_expect_traj_std(k) ==
    Read("averaged", "expect_traj_std", k,
         MultiTrajResultAveraged_expect_traj_std(averaged, k))
A_photocurrent ==
    Read("averaged", "photocurrent", 0, MultiTrajResultAveraged_photocurrent(averaged))

Next ==
    \/ \E p \in Paths : Add(Run(options, p))
    \/ M_runs_states
    \/ M_average_states
    \/ M_runs_final_states
    \/ M_average_final_state
    \/ M_steady_state
    \/ M_average_expect
    \/ M_std_expect
    \/ M_runs_expect
    \/ \E k \in NTraj : M_expect_traj_avg(k)
    \/ \E k \in NTraj : M_expect_traj_std(k)
    \/ M_photocurrent
    \/ A_runs_states
    \/ A_average_states
    \/ A_runs_final_states
    \/ A_average_final_state
    \/ A_steady_state
    \/ A_average_expect
    \/ A_std_expect
    \/ A_runs_expect
    \/ \E k \in NTraj : A_expect_traj_avg(k)
    \/ \E k \in NTraj : A_expect_traj_std(k)
    \/ A_photocurrent

\* no recorder is under construction while the aggregators are exercised
NoResult ==
    /\ ctor = [e_ops |-> [form |-> "none", ops |-> <<>>, names |-> <<>>],
               options |-> [store_states |-> "None", store_final_state |-> FALSE]]
    /\ result = None

Init == AggInit /\ NoResult

Spec == Init /\ [][Next]_vars


\* ---------------------------------------------------------- the recorder
\* the e_ops arguments tried: None, a list of up to two entries, a dict of
\* two entries (keys "b" then "a"), and a single entry
EOpsInputs ==
    {[form |-> "none", ops |-> <<>>, names |-> <<>>]}
    \cup {[form |-> "list", ops |-> o, names |-> <<>>] :
            o \in {<<>>} \cup [1..1 -> OpTypes] \cup [1..2 -> OpTypes]}
    \cup {[form |-> "dict", ops |-> o, names |-> <<"b", "a">>] :
            o \in [1..2 -> OpTypes]}
    \cup {[form |-> "single", ops |-> o, names |-> <<>>] : o \in [1..1 -> OpTypes]}

OptionsInputs == [store_states : {"None", "True", "False"},
                  store_final_state : BOOLEAN]

\* the aggregators are not touched while a recorder is exercised
NoBatch ==
    /\ options = [store_states |-> "None", store_final_state |-> FALSE]
    /\ multi = MultiTrajResult_init(NumCOps)
    /\ averaged = MultiTrajResultAveraged_init(NumCOps)
    /\ op = Call("", "init", 0)
    /\ ret = None

\* Result(e_ops, options)
ResultInit ==
    /\ ctor \in [e_ops : EOpsInputs, options : OptionsInputs]
    /\ result = Result_init(ctor.e_ops, ctor.options)
    /\ NoBatch

\* the processors a caller has registered through add_processor
Extras(r) == SelectSeq(r.state_processors, LAMBDA q : q.kind = "extra")

\* the solver records the state `ket` at the next time
R_add(ket) ==
    /\ IsOk(result)
    /\ Len(result.val.times) < MaxAdds
    /\ result' = Ok(Result_add(result.val, Len(result.val.times), SolverState(ket)))
    /\ UNCHANGED <<ctor, options, multi, averaged, op, ret>>

\* a caller registers one more processor
R_add_processor(requires_copy) ==
    /\ IsOk(result)
    /\ Len(Extras(result.val)) < MaxExtra
    /\ result' = Ok(add_processor(result.val,
                                  ExtraProc(Len(Extras(result.val)) + 1),
                                  requires_copy))
    /\ UNCHANGED <<ctor, options, multi, averaged, op, ret>>

NextResult ==
    \/ \E ket \in Kets : R_add(ket)
    \/ \E requires_copy \in BOOLEAN : R_add_processor(requires_copy)

SpecResult == ResultInit /\ [][NextResult]_vars


\* =============================================================== claims
\* what the claims speak of: the trajectories added so far, in order
Added == multi.trajectories
N == Len(multi.trajectories)

\* the sum over the first n trajectories of observable i at time index j,
\* and of its square
RECURSIVE ValueSum(_, _, _, _)
ValueSum(trajs, i, j, n) ==
    IF n = 0 THEN 0 ELSE ValueSum(trajs, i, j, n - 1) + trajs[n].expect[i][j]

RECURSIVE SquareSum(_, _, _, _)
SquareSum(trajs, i, j, n) ==
    IF n = 0 THEN 0
    ELSE SquareSum(trajs, i, j, n - 1) + trajs[n].expect[i][j] * trajs[n].expect[i][j]

\* x is the mean of the first n trajectories' values: n * x = sum
IsMean(x, trajs, i, j, n) ==
    /\ Len(x) = 2
    /\ x[1] * n = ValueSum(trajs, i, j, n) * x[2]

\* the square of a number that is a rational or a surd
SquareOf(x) == IF Len(x) = 2 THEN RMul(x, x) ELSE Rat(x[1], x[2])

\* x is the population standard deviation of the first n trajectories'
\* values: x >= 0 and n^2 * x^2 = n * (sum of squares) - (sum)^2
IsPopStd(x, trajs, i, j, n) ==
    /\ x[1] >= 0
    /\ LET q == SquareOf(x)
           sm == ValueSum(trajs, i, j, n)
       IN  q[1] * n * n = (n * SquareSum(trajs, i, j, n) - sm * sm) * q[2]

\* the observables and time indices of the batch
ObsIdx == 1..Len(BatchEOps.ops)
TimeIdx == 1..Len(tlist)

\* v is one array per observable, each with one entry per time
Shaped(v) == Len(v) = Len(BatchEOps.ops) /\ \A i \in ObsIdx : Len(v[i]) = Len(tlist)

\* the arrays of a dict keyed 0..n-1, in key order
DictValues(d) == [i \in 1..Len(d) |-> d[i].v]
KeyedByPosition(d) == \A i \in 1..Len(d) : d[i].k = Pos(i - 1)

\* C1: once n >= 1 trajectories are added, average_expect of either
\* aggregator is, for every observable and time index, the sum of the n
\* values divided by n.
C1_MeanObservable ==
    N >= 1 =>
        LET m == MultiTrajResult_average_expect(multi)
            a == MultiTrajResultAveraged_average_expect(averaged)
        IN  /\ IsOk(m) /\ KeyedByPosition(m.val) /\ Shaped(DictValues(m.val))
            /\ IsOk(a) /\ Shaped(a.val)
            /\ \A i \in ObsIdx : \A j \in TimeIdx :
                  /\ IsMean(m.val[i].v[j], Added, i, j, N)
                  /\ IsMean(a.val[i][j], Added, i, j, N)

\* the first observable of the trajectories added so far
FirstObservable == [n \in 1..N |-> Added[n].expect[1]]

C1_Witness ==
    /\ op = Call("averaged", "average_expect", 0)
    /\ FirstObservable = <<<<1, 2, 3>>, <<3, 3, 3>>>>
    /\ IsOk(ret)
    /\ ret.val[1] = <<<<2, 1>>, <<5, 2>>, <<3, 1>>>>

\* C2: std_expect of either aggregator is the population standard
\* deviation (denominator n) of the n values; one trajectory gives zeros;
\* values [1,2,3] and [3,2,1] give mean [2,2,2] and std [1,0,1].
C2_StdObservable ==
    N >= 1 =>
        LET m == MultiTrajResult_std_expect(multi)
            a == MultiTrajResultAveraged_std_expect(averaged)
            mm == MultiTrajResult_average_expect(multi)
            am == MultiTrajResultAveraged_average_expect(averaged)
            zeros == [j \in TimeIdx |-> RInt(0)]
        IN  /\ IsOk(m) /\ KeyedByPosition(m.val) /\ Shaped(DictValues(m.val))
            /\ IsOk(a) /\ Shaped(a.val)
            /\ \A i \in ObsIdx : \A j \in TimeIdx :
                  /\ IsPopStd(m.val[i].v[j], Added, i, j, N)
                  /\ IsPopStd(a.val[i][j], Added, i, j, N)
            /\ N = 1 => \A i \in ObsIdx : m.val[i].v = zeros /\ a.val[i] = zeros
            /\ FirstObservable = <<<<1, 2, 3>>, <<3, 2, 1>>>> =>
                  /\ mm.val[1].v = <<RInt(2), RInt(2), RInt(2)>>
                  /\ am.val[1] = <<RInt(2), RInt(2), RInt(2)>>
                  /\ m.val[1].v = <<RInt(1), RInt(0), RInt(1)>>
                  /\ a.val[1] = <<RInt(1), RInt(0), RInt(1)>>

C2_Witness ==
    /\ op = Call("averaged", "std_expect", 0)
    /\ FirstObservable = <<<<1, 2, 3>>, <<3, 2, 1>>>>
    /\ IsOk(ret)
    /\ ret.val[1] = <<<<1, 1>>, <<0, 1>>, <<1, 1>>>>


\* entry e (row major) of |psi><psi| for the ket psi
ProjEntry(ket, e) == ket[((e - 1) \div 2) + 1] * ket[((e - 1) % 2) + 1]

\* the sum over the first n trajectories of entry e of the promoted state
\* stored at time index j, and of the promoted final state
RECURSIVE StateEntrySum(_, _, _, _)
StateEntrySum(trajs, j, e, n) ==
    IF n = 0 THEN 0
    ELSE StateEntrySum(trajs, j, e, n - 1) + ProjEntry(trajs[n].states[j].ket, e)

RECURSIVE FinalEntrySum(_, _, _)
FinalEntrySum(trajs, e, n) ==
    IF n = 0 THEN 0
    ELSE FinalEntrySum(trajs, e, n - 1) + ProjEntry(trajs[n].final_state.val.ket, e)

\* the states and the final state of every trajectory of the batch are stored
StatesStored == options.store_states = "True"

\* C3: fed the same trajectories (states and final state stored), the two
\* aggregators report equal average_states, average_final_state, mean and
\* std observables after every add, and each averaged state is the sum of
\* the promoted states at that time index divided by the trajectory count.
C3_StreamingEqualsRetaining ==
    (StatesStored /\ N >= 1) =>
        LET ms == MultiTrajResult_average_states(multi)
            as == MultiTrajResultAveraged_average_states(averaged)
            mf == MultiTrajResult_average_final_state(multi)
            af == MultiTrajResultAveraged_average_final_state(averaged)
            me == MultiTrajResult_average_expect(multi)
            ae == MultiTrajResultAveraged_average_expect(averaged)
            md == MultiTrajResult_std_expect(multi)
            ad == MultiTrajResultAveraged_std_expect(averaged)
        IN  /\ IsOk(ms) /\ IsOk(as) /\ ms.val = as.val
            /\ Len(ms.val) = Len(tlist)
            /\ \A j \in TimeIdx : \A e \in 1..4 :
                  /\ Len(ms.val[j][e]) = 2
                  /\ ms.val[j][e][1] * N = StateEntrySum(Added, j, e, N) * ms.val[j][e][2]
            /\ IsOk(mf) /\ IsOk(af) /\ mf.val = af.val
            /\ \A e \in 1..4 :
                  mf.val[e][1] * N = FinalEntrySum(Added, e, N) * mf.val[e][2]
            /\ IsOk(me) /\ IsOk(ae) /\ KeyedByPosition(me.val)
            /\ DictValues(me.val) = ae.val
            /\ IsOk(md) /\ IsOk(ad) /\ KeyedByPosition(md.val)
            /\ DictValues(md.val) = ad.val

C3_Witness ==
    /\ StatesStored
    /\ op = Call("both", "add", 0)
    /\ N = 2
    /\ FirstObservable = <<<<1, 2, 3>>, <<2, 2, 2>>>>
    /\ averaged.num = 2

\* the time average of a list of matrices: the sum of its entries divided
\* by their number (avg non-empty)
TimeAverage(avg) == MDivInt(MSum(avg, Len(avg)), Len(avg))

\* C4: in both aggregators steady_state is the sum of the entries of that
\* aggregator's average_states divided by the number of time points, so
\* the two aggregators agree on it.
C4_SteadyState ==
    (StatesStored /\ N >= 1) =>
        LET m == MultiTrajResult_steady_state(multi)
            a == MultiTrajResultAveraged_steady_state(averaged)
        IN  /\ IsOk(m) /\ IsOk(a)
            /\ m.val = TimeAverage(MultiTrajResult_average_states(multi).val)
            /\ a.val = TimeAverage(MultiTrajResultAveraged_average_states(averaged).val)
            /\ a.val = m.val

\* C5: in the retaining aggregator, for 1 <= k <= n, expect_traj_avg(k) is
\* the mean and expect_traj_std(k) the population standard deviation of the
\* first k trajectories, and the two differ when that mean is not zero.
C5_WindowedStatistics ==
    \A k \in 1..N :
        LET avg == MultiTrajResult_expect_traj_avg(multi, k)
            std == MultiTrajResult_expect_traj_std(multi, k)
        IN  /\ IsOk(avg) /\ IsOk(std)
            /\ \A i \in ObsIdx : \A j \in TimeIdx :
                  /\ IsMean(avg.val[i].v[j], Added, i, j, k)
                  /\ IsPopStd(std.val[i].v[j], Added, i, j, k)
                  /\ ValueSum(Added, i, j, k) # 0 =>
                        avg.val[i].v[j] # std.val[i].v[j]

\* the accessors the streaming aggregator does not support
NotAvailable ==
    {"runs_states", "runs_final_states", "runs_expect",
     "expect_traj_avg", "expect_traj_std"}

\* C6: at any point of its life, the windowed queries and per-trajectory
\* accessors of the streaming aggregator return None for every ntraj and
\* leave the aggregator as it was.
C6_StreamingNotAvailable ==
    [][(op'.obj = "averaged" /\ op'.name \in NotAvailable) =>
          (ret' = None /\ averaged' = averaged)]_vars

C6_Witness ==
    /\ op = Call("averaged", "expect_traj_avg", 2)
    /\ averaged.num = 2
    /\ ret = None

\* the derived read operations
Derived ==
    {"average_states", "average_final_state", "steady_state",
     "average_expect", "std_expect", "photocurrent"}

\* C7: a derived read of an aggregator that holds no trajectory raises, and
\* leaves the aggregator as constructed, so that the next add is a first add.
C7_ReadBeforeAdd ==
    /\ [][(N = 0 /\ op'.name \in Derived) =>
             /\ IsErr(ret')
             /\ multi' = MultiTrajResult_init(NumCOps)
             /\ averaged' = MultiTrajResultAveraged_init(NumCOps)]_vars
    /\ [](N = 1 =>
             /\ multi = MultiTrajResult_add(MultiTrajResult_init(NumCOps), Added[1])
             /\ averaged = MultiTrajResultAveraged_add(
                               MultiTrajResultAveraged_init(NumCOps), Added[1]).self)

C7_Witness ==
    /\ op = Call("averaged", "average_expect", 0)
    /\ N = 0
    /\ IsErr(ret)


\* the processors of a recorder in the order the claims name: one per
\* observable in key order, state storage, final-state storage, then the
\* ones registered by callers
StoresStates(r) ==
    \/ ctor.options.store_states = "True"
    \/ ctor.options.store_states = "None" /\ Len(r.e_keys) = 0

StoresFinalState(r) == StoresStates(r) \/ ctor.options.store_final_state

Registered(r) ==
    [j \in 1..Len(r.e_keys) |-> EopProc(r.e_keys[j])]
    \o (IF StoresStates(r) THEN <<StoreStateProc>> ELSE <<>>)
    \o (IF StoresFinalState(r) THEN <<StoreFinalProc>> ELSE <<>>)
    \o [n \in 1..Len(Extras(r)) |-> ExtraProc(n)]

\* a step of the recorder that is a call of add
IsAddStep == IsOk(result) /\ Len(result'.val.times) = Len(result.val.times) + 1

\* C8: each Result.add appends t to times, then calls every registered
\* processor exactly once in registration order (observables in key order,
\* state storage, final-state storage, later registrations), and copies
\* the state at most once.
C8_AddRunsProcessorsOnce ==
    /\ [](IsOk(result) => result.val.state_processors = Registered(result.val))
    /\ [][IsAddStep =>
             LET before == result.val
                 after == result'.val
             IN  /\ SubSeq(after.times, 1, Len(before.times)) = before.times
                 /\ [j \in 1..Len(after.log) |-> after.log[j].proc]
                        = before.state_processors
                 /\ \A j \in 1..Len(after.log) :
                        after.log[j].ntimes = Len(before.times) + 1
                 /\ after.ncopy <= 1
                 /\ after.ncopies = before.ncopies + after.ncopy]_vars

C8_Witness ==
    /\ IsOk(result)
    /\ Len(result.val.times) = 2
    /\ Len(result.val.log) = 5
    /\ result.val.log[5].proc = ExtraProc(1)
    /\ result.val.ncopy = 1

\* C9: with store_states unset, a Result without observables stores every
\* state (m entries after m adds); one with at least one observable never
\* stores states, and its final_state stays None unless store_final_state
\* is set.
C9_DefaultStateRetention ==
    (IsOk(result) /\ ctor.options.store_states = "None") =>
        LET r == result.val
        IN  /\ Len(ctor.e_ops.ops) = 0 => Len(r.states) = Len(r.times)
            /\ Len(ctor.e_ops.ops) >= 1 =>
                  /\ r.states = <<>>
                  /\ ~ctor.options.store_final_state => r.final_state = None

C9_Witness ==
    /\ IsOk(result)
    /\ ctor.options.store_states = "None"
    /\ ctor.e_ops.form = "list"
    /\ Len(ctor.e_ops.ops) = 0
    /\ Len(result.val.states) = 2

\* the e_ops argument holds an entry of unsupported type
HasUnsupported(e_ops) ==
    \E j \in 1..Len(e_ops.ops) : e_ops.ops[j] \notin {"Qobj", "QobjEvo", "callable"}

\* C10: constructing a Result whose e_ops hold an unsupported entry, at any
\* position, raises: there is no Result to call add on.
C10_UnsupportedSpecFailsConstruction ==
    HasUnsupported(ctor.e_ops) => IsErr(result) /\ result.exc = "TypeError"

C10_Witness ==
    /\ ctor.e_ops.form = "list"
    /\ ctor.e_ops.ops = <<"Qobj", "int">>
    /\ IsErr(result)


\* ------------------------------------------- batches with collapse events
\* the time grids of such runs: bins of unequal width
GridA == <<0, 2, 3>>
GridB == <<0, 1, 3>>

\* a collapse as the solver records it: (time, which_oper)
Event(t, which) == [t |-> t, which |-> which]

\* the recorder after the solver has added the state ket at the first n
\* times of the grid `times`
RECURSIVE RecordOn(_, _, _, _)
RecordOn(r, times, ket, n) ==
    IF n = 0 THEN r
    ELSE Result_add(RecordOn(r, times, ket, n - 1), times[n], SolverState(ket))

\* the runs of such a batch, by grid and collapses: no collapse; one of
\* channel 0 inside the first bin; one more of channel 1 at the end of the
\* grid; one of a channel the aggregator was not told of; two of channel 0
\* on another grid
CollapseRuns ==
    <<[times |-> GridA, collapse |-> <<>>],
      [times |-> GridA, collapse |-> <<Event(1, 0)>>],
      [times |-> GridA, collapse |-> <<Event(1, 0), Event(3, 1)>>],
      [times |-> GridA, collapse |-> <<Event(2, NumCOps)>>],
      [times |-> GridB, collapse |-> <<Event(1, 0), Event(2, 0)>>]>>

\* the finished run number i
CollapseRun(i) ==
    Trajectory(RecordOn(Result_init(BatchEOps,
                                    [store_states |-> "None",
                                     store_final_state |-> FALSE]).val,
                        CollapseRuns[i].times, Level(1),
                        Len(CollapseRuns[i].times)),
               CollapseRuns[i].collapse)

CollapseInit ==
    /\ options = [store_states |-> "None", store_final_state |-> FALSE]
    /\ multi = MultiTrajResult_init(NumCOps)
    /\ averaged = MultiTrajResultAveraged_init(NumCOps)
    /\ op = Call("", "init", 0)
    /\ ret = None
    /\ NoResult

\* the scheduler hands the finished run number i to both aggregators
AddCollapseRun(i) ==
    /\ Len(multi.trajectories) < MaxTraj
    /\ multi' = MultiTrajResult_add(multi, CollapseRun(i))
    /\ LET a == MultiTrajResultAveraged_add(averaged, CollapseRun(i))
       IN  averaged' = a.self /\ ret' = a.out
    /\ op' = Call("both", "add", i)
    /\ UNCHANGED <<options, ctor, result>>

M_collapse == Read("multi", "collapse", 0, Ok(MultiTrajResult_collapse(multi)))
M_col_times == Read("multi", "col_times", 0, Ok(MultiTrajResult_col_times(multi)))
M_col_which == Read("multi", "col_which", 0, Ok(MultiTrajResult_col_which(multi)))
M_num_traj == Read("multi", "num_traj", 0, Ok(MultiTrajResult_num_traj(multi)))

A_collapse ==
    Read("averaged", "collapse", 0, Ok(MultiTrajResultAveraged_collapse(averaged)))
A_col_times ==
    Read("averaged", "col_times", 0, Ok(MultiTrajResultAveraged_col_times(averaged)))
A_col_which ==
    Read("averaged", "col_which", 0, Ok(MultiTrajResultAveraged_col_which(averaged)))
A_num_traj ==
    Read("averaged", "num_traj", 0, Ok(MultiTrajResultAveraged_num_traj(averaged)))

NextCollapse ==
    \/ \E i \in 1..Len(CollapseRuns) : AddCollapseRun(i)
    \/ M_photocurrent
    \/ M_collapse
    \/ M_col_times
    \/ M_col_which
    \/ M_num_traj
    \/ A_photocurrent
    \/ A_collapse
    \/ A_col_times
    \/ A_col_which
    \/ A_num_traj

SpecCollapse == CollapseInit /\ [][NextCollapse]_vars


\* some added trajectory holds a collapse of channel c
HasEvent(trajs, c) ==
    \E n \in 1..Len(trajs) : \E e \in 1..Len(trajs[n].collapse) :
        trajs[n].collapse[e].which = c

\* C11: once a trajectory is added, photocurrent of either aggregator is
\* num_c_ops sequences, each with one entry per bin of the time grid
\* (len(times) - 1), and the sequence of a channel without any collapse in
\* the added trajectories is all zero; no error is raised.
C11_PhotocurrentShape ==
    N >= 1 =>
        LET m == MultiTrajResult_photocurrent(multi)
            a == MultiTrajResultAveraged_photocurrent(averaged)
            bins == Len(Added[1].times) - 1
            zeros == [j \in 1..bins |-> RInt(0)]
        IN  /\ IsOk(m) /\ IsOk(a)
            /\ Len(m.val) = NumCOps /\ Len(a.val) = NumCOps
            /\ \A c \in 1..NumCOps :
                  /\ Len(m.val[c]) = bins /\ Len(a.val[c]) = bins
                  /\ ~HasEvent(Added, c - 1) => m.val[c] = zeros /\ a.val[c] = zeros

C11_Witness ==
    /\ op.obj = "averaged" /\ op.name = "photocurrent"
    /\ N = 2
    /\ HasEvent(Added, 0) /\ ~HasEvent(Added, 1)
    /\ IsOk(ret)
    /\ ret.val[1] # <<RInt(0), RInt(0)>>
    /\ ret.val[2] = <<RInt(0), RInt(0)>>

\* the time t falls in bin j of the grid: bins are closed on the left and
\* open on the right, but for the last, which is closed on both sides
InBin(t, edges, j) ==
    /\ edges[j] <= t
    /\ \/ t < edges[j + 1]
       \/ j = Len(edges) - 1 /\ t = edges[j + 1]

\* the number of collapses (t, c) of the trajectories with t in bin j
EventsIn(trajs, c, edges, j) ==
    Cardinality({ne \in UNION {{<<n, e>> : e \in 1..Len(trajs[n].collapse)} :
                                  n \in 1..Len(trajs)} :
                    /\ trajs[ne[1]].collapse[ne[2]].which = c
                    /\ InBin(trajs[ne[1]].collapse[ne[2]].t, edges, j)})

\* C12: photocurrent[i][j] is the number of collapses of channel i in bin j
\* of the first trajectory's grid over all added trajectories, divided by
\* the width of the bin and by the number of trajectories; a collapse of a
\* channel >= num_c_ops changes nothing and raises nothing; the two
\* aggregators give the same histogram.
C12_PhotocurrentRate ==
    N >= 1 =>
        LET m == MultiTrajResult_photocurrent(multi)
            a == MultiTrajResultAveraged_photocurrent(averaged)
            edges == Added[1].times
        IN  /\ IsOk(m) /\ IsOk(a)
            /\ a.val = m.val
            /\ \A c \in 1..NumCOps : \A j \in 1..(Len(edges) - 1) :
                  /\ Len(m.val[c][j]) = 2
                  /\ m.val[c][j][1] * (edges[j + 1] - edges[j]) * N
                        = EventsIn(Added, c - 1, edges, j) * m.val[c][j][2]

C12_Witness ==
    /\ op.obj = "multi" /\ op.name = "photocurrent"
    /\ N = 2
    /\ Added[1].times = GridA
    /\ Added[1].collapse = <<Event(1, 0), Event(3, 1)>>
    /\ Added[2].collapse = <<Event(2, NumCOps)>>
    /\ IsOk(ret)
    /\ ret.val = <<<<Rat(1, 4), RInt(0)>>, <<RInt(0), Rat(1, 2)>>>>

\* C20: after n adds num_traj is n and the collapse collection holds the n
\* collapse lists in arrival order, each add appending that of the
\* trajectory added; col_times and col_which hold, per trajectory, the
\* times and the channels of its collapses in order (empty for none).
C20_CollapseCollection ==
    /\ [](LET mc == MultiTrajResult_collapse(multi)
              ac == MultiTrajResultAveraged_collapse(averaged)
              times_of(c) == [i \in 1..Len(c) |-> [e \in 1..Len(c[i]) |-> c[i][e].t]]
              which_of(c) == [i \in 1..Len(c) |-> [e \in 1..Len(c[i]) |-> c[i][e].which]]
          IN  /\ MultiTrajResult_num_traj(multi) = Len(mc)
              /\ MultiTrajResultAveraged_num_traj(averaged) = Len(ac)
              /\ ac = mc
              /\ MultiTrajResult_col_times(multi) = times_of(mc)
              /\ MultiTrajResult_col_which(multi) = which_of(mc)
              /\ MultiTrajResultAveraged_col_times(averaged) = times_of(ac)
              /\ MultiTrajResultAveraged_col_which(averaged) = which_of(ac))
    /\ [][op'.name = "add" =>
             /\ ret' = None
             /\ MultiTrajResult_collapse(multi')
                   = Append(MultiTrajResult_collapse(multi),
                            CollapseRuns[op'.k].collapse)
             /\ MultiTrajResultAveraged_collapse(averaged')
                   = Append(MultiTrajResultAveraged_collapse(averaged),
                            CollapseRuns[op'.k].collapse)
             /\ MultiTrajResult_num_traj(multi')
                   = MultiTrajResult_num_traj(multi) + 1
             /\ MultiTrajResultAveraged_num_traj(averaged')
                   = MultiTrajResultAveraged_num_traj(averaged) + 1]_vars
    /\ MultiTrajResult_num_traj(multi) = 0
    /\ MultiTrajResultAveraged_num_traj(averaged) = 0
    /\ MultiTrajResult_collapse(multi) = <<>>
    /\ MultiTrajResultAveraged_collapse(averaged) = <<>>

C20_Witness ==
    /\ op.obj = "averaged" /\ op.name = "col_which"
    /\ averaged.num = 2
    /\ IsOk(ret)
    /\ ret.val = <<<<>>, <<0, 1>>>>
    /\ MultiTrajResultAveraged_col_times(averaged) = <<<<>>, <<1, 3>>>>


\* the values an e_op entry can record at time t
ValuesAt(e_op, t) ==
    IF e_op = "Qobj" THEN {expect(ket) : ket \in Kets}
    ELSE IF e_op = "QobjEvo" THEN {t * expect(ket) : ket \in Kets}
    ELSE {t}

\* C13: e_ops None binds no key, a list of n entries the keys 0..n-1 in
\* order, a dict its keys in its order, a single entry the key 0; e_ops
\* and e_data have these keys, expect lists the value sequences in key
\* order, and after any number of adds expect[i] is e_data of the i-th key
\* and holds one value of the i-th entry per time.
C13_KeyBinding ==
    IsOk(result) =>
        LET r == result.val
            ops == ctor.e_ops.ops
            n == Len(ops)
            form == ctor.e_ops.form
        IN  /\ form = "none" => r.e_keys = <<>>
            /\ form = "list" => r.e_keys = [j \in 1..n |-> Pos(j - 1)]
            /\ form = "dict" => r.e_keys = [j \in 1..n |-> Name(ctor.e_ops.names[j])]
            /\ form = "single" => r.e_keys = <<Pos(0)>>
            /\ [j \in 1..Len(r.e_ops) |-> r.e_ops[j].k] = r.e_keys
            /\ Len(r.e_data) = Len(r.e_keys)
            /\ Len(Result_expect(r)) = Len(r.e_keys)
            /\ \A i \in 1..Len(r.e_keys) :
                  /\ KeyIndex(r, r.e_keys[i]) = i
                  /\ Result_expect(r)[i] = r.e_data[KeyIndex(r, r.e_keys[i])]
                  /\ r.e_ops[i].op = ops[i]
                  /\ Len(r.e_data[i]) = Len(r.times)
                  /\ \A j \in 1..Len(r.times) :
                        r.e_data[i][j] \in ValuesAt(ops[i], r.times[j])

C13_Witness ==
    /\ IsOk(result)
    /\ ctor.e_ops.form = "dict"
    /\ ctor.e_ops.ops = <<"callable", "Qobj">>
    /\ result.val.e_keys = <<Name("b"), Name("a")>>
    /\ Result_expect(result.val) = <<<<0, 1>>, <<2, 3>>>>


\* ------------------------------------- batches of runs of differing shape
\* the e_ops of a run with named observables
NamedEOps == [form |-> "dict", ops |-> <<"callable", "Qobj">>, names |-> <<"b", "a">>]

\* the runs of such a batch, by e_ops, number of recorded times and
\* store_states: the shape the others are measured against; one observable
\* less; one recorded time less; named observables; no state stored
MixedRuns ==
    <<[e_ops |-> BatchEOps, ntimes |-> 3, store_states |-> "True"],
      [e_ops |-> [form |-> "list", ops |-> <<"Qobj">>, names |-> <<>>],
       ntimes |-> 3, store_states |-> "True"],
      [e_ops |-> BatchEOps, ntimes |-> 2, store_states |-> "True"],
      [e_ops |-> NamedEOps, ntimes |-> 3, store_states |-> "True"],
      [e_ops |-> NamedEOps, ntimes |-> 3, store_states |-> "None"]>>

\* the finished run number i: the level rises by one per recorded time
MixedRun(i) ==
    Trajectory(Record(Result_init(MixedRuns[i].e_ops,
                                  [store_states |-> MixedRuns[i].store_states,
                                   store_final_state |-> FALSE]).val,
                      <<1, 2, 3>>, MixedRuns[i].ntimes),
               <<>>)

\* the scheduler hands the finished run number i to both aggregators; the
\* streaming aggregator is left as the call leaves it, also when it raises
AddMixedRun(i) ==
    /\ Len(multi.trajectories) < MaxTraj
    /\ multi' = MultiTrajResult_add(multi, MixedRun(i))
    /\ LET a == MultiTrajResultAveraged_add(averaged, MixedRun(i))
       IN  averaged' = a.self /\ ret' = a.out
    /\ op' = Call("both", "add", i)
    /\ UNCHANGED <<options, ctor, result>>

NextMixed ==
    \/ \E i \in 1..Len(MixedRuns) : AddMixedRun(i)
    \/ M_average_states
    \/ M_average_expect
    \/ M_std_expect
    \/ A_average_states
    \/ A_average_expect
    \/ A_std_expect

SpecMixed == CollapseInit /\ [][NextMixed]_vars


\* python's d[k] for a dict held as a sequence of (key, value), and l[k]
\* for a list
DictGet(d, k) ==
    LET I == {j \in 1..Len(d) : d[j].k = k}
    IN  IF I = {} THEN Raise("KeyError") ELSE Ok(d[CHOOSE j \in I : TRUE].v)

ListGet(l, k) ==
    IF k.kind # "pos" THEN Raise("TypeError")
    ELSE IF k.i >= Len(l) THEN Raise("IndexError")
    ELSE Ok(l[k.i + 1])

\* every trajectory added was recorded with the named observables
AllNamed == \A n \in 1..N : Added[n].e_keys = <<Name("b"), Name("a")>>

\* C14: when the trajectories were recorded with named observables, the
\* mean and the std of both aggregators are read without error under the
\* keys the recorder uses in e_data, the keys reported being those of the
\* first trajectory added.
C14_NamedKeys ==
    (N >= 1 /\ AllNamed) =>
        LET m == MultiTrajResult_average_expect(multi)
            sd == MultiTrajResult_std_expect(multi)
            a == MultiTrajResultAveraged_average_expect(averaged)
            asd == MultiTrajResultAveraged_std_expect(averaged)
            keys == Added[1].e_keys
        IN  /\ IsOk(m) /\ IsOk(sd) /\ IsOk(a) /\ IsOk(asd)
            /\ [i \in 1..Len(m.val) |-> m.val[i].k] = keys
            /\ [i \in 1..Len(sd.val) |-> sd.val[i].k] = keys
            /\ \A i \in 1..Len(keys) :
                  /\ IsOk(DictGet(m.val, keys[i])) /\ IsOk(DictGet(sd.val, keys[i]))
                  /\ IsOk(ListGet(a.val, keys[i])) /\ IsOk(ListGet(asd.val, keys[i]))
                  /\ \A j \in TimeIdx :
                        /\ IsMean(DictGet(m.val, keys[i]).val[j], Added, i, j, N)
                        /\ IsPopStd(DictGet(sd.val, keys[i]).val[j], Added, i, j, N)
                        /\ IsMean(ListGet(a.val, keys[i]).val[j], Added, i, j, N)
                        /\ IsPopStd(ListGet(asd.val, keys[i]).val[j], Added, i, j, N)

\* C16: an add of the streaming aggregator that raises leaves the state
\* sums, the final-state sum, the observable sums and sums of squares, the
\* collapse collection and the trajectory count as they were.
C16_FailedAddAtomic ==
    [][(op'.name = "add" /\ IsErr(ret')) => averaged' = averaged]_vars


\* ------------------------------------- a recorder whose processors may raise
\* the loop of Result.add over the processors (lines 290-291), from i, when
\* the call of processor number `fail` raises (none does when fail is 0):
\* the recorder as the call leaves it, and the outcome of the call
RECURSIVE RunProcessorsRaising(_, _, _, _, _)
RunProcessorsRaising(r, i, t, state, fail) ==
    IF i > Len(r.state_processors) THEN [self |-> r, out |-> None]
    ELSE IF i = fail
        THEN [self |-> [r EXCEPT !.log =
                           Append(@, [proc |-> r.state_processors[i],
                                      sid |-> state.id,
                                      ntimes |-> Len(r.times)])],
              out |-> Raise("Exception")]
    ELSE RunProcessorsRaising(CallProcessor(r, r.state_processors[i], t, state),
                              i + 1, t, state, fail)

\* Result.add when the call of processor number `fail` raises
Result_add_raising(r, t, state, fail) ==
    LET r1 == [r EXCEPT !.times = Append(@, t), !.log = <<>>, !.ncopy = 0]
        r2 == IF r.state_processors_require_copy
              THEN [r1 EXCEPT !.ncopies = @ + 1, !.ncopy = @ + 1]
              ELSE r1
        st == IF r.state_processors_require_copy THEN pre_copy(r, state)
              ELSE state
    IN  RunProcessorsRaising(r2, 1, t, st, fail)

\* the processors whose call can raise: an observable's evaluator f(t, state)
\* and a processor registered by a caller
CanRaise(r) ==
    {i \in 1..Len(r.state_processors) :
        r.state_processors[i].kind \in {"e_op", "extra"}}

\* the e_ops arguments tried: None, a list of one and of two entries, a dict
CallEOpsInputs ==
    {[form |-> "none", ops |-> <<>>, names |-> <<>>],
     [form |-> "list", ops |-> <<"Qobj">>, names |-> <<>>],
     BatchEOps,
     NamedEOps}

\* the kets a solver passes, numbered
KetSeq == <<<<1, 0>>, <<0, 1>>, <<1, 1>>>>

\* Result(e_ops, options)
CallsInit ==
    /\ ctor \in [e_ops : CallEOpsInputs, options : OptionsInputs]
    /\ result = Result_init(ctor.e_ops, ctor.options)
    /\ NoBatch

\* the solver records ket number k at the next time; the call of processor
\* number fail raises (none when 0)
R_call_add(k, fail) ==
    /\ IsOk(result)
    /\ Len(result.val.times) < MaxAdds
    /\ fail \in {0} \cup CanRaise(result.val)
    /\ LET a == Result_add_raising(result.val, Len(result.val.times),
                                   SolverState(KetSeq[k]), fail)
       IN  result' = Ok(a.self) /\ ret' = a.out
    /\ op' = Call("result", "add", k)
    /\ UNCHANGED <<ctor, options, multi, averaged>>

\* a caller registers one more processor
R_call_add_processor(requires_copy) ==
    /\ IsOk(result)
    /\ Len(Extras(result.val)) < MaxExtra
    /\ result' = Ok(add_processor(result.val,
                                  ExtraProc(Len(Extras(result.val)) + 1),
                                  requires_copy))
    /\ op' = Call("result", "add_processor", IF requires_copy THEN 1 ELSE 0)
    /\ ret' = None
    /\ UNCHANGED <<ctor, options, multi, averaged>>

NextCalls ==
    \/ \E k \in 1..Len(KetSeq) : \E fail \in 0..(Len(BatchEOps.ops) + 2 + MaxExtra) :
          R_call_add(k, fail)
    \/ \E requires_copy \in BOOLEAN : R_call_add_processor(requires_copy)

SpecCalls == CallsInit /\ [][NextCalls]_vars


\* C15: after every call of Result.add, completed or failed, every value
\* sequence e_data[k] has len(times) entries, and so has states when states
\* are stored.
C15_ParallelSequences ==
    IsOk(result) =>
        LET r == result.val
        IN  /\ \A j \in 1..Len(r.e_data) : Len(r.e_data[j]) = Len(r.times)
            /\ StoresStates(r) => Len(r.states) = Len(r.times)

\* C17: when store_states or store_final_state is in effect, a call of
\* Result.add leaves in final_state the copy of the state it was passed;
\* when states are stored final_state is the last entry of states; when
\* neither option is in effect final_state stays None.
C17_FinalState ==
    /\ [](IsOk(result) =>
             LET r == result.val
             IN  /\ (StoresStates(r) /\ Len(r.states) > 0) =>
                        r.final_state = Ok(r.states[Len(r.states)])
                 /\ ~StoresFinalState(r) => r.final_state = None)
    /\ [][(op'.name = "add" /\ ret' = None /\ StoresFinalState(result.val)) =>
             result'.val.final_state
                 = Ok([id |-> result.val.ncopies + 1, ket |-> KetSeq[op'.k]])]_vars

C17_Witness ==
    /\ IsOk(result)
    /\ op.name = "add" /\ op.k = 2 /\ ret = None
    /\ ctor.options.store_states = "False" /\ ctor.options.store_final_state
    /\ Len(result.val.times) = 2
    /\ result.val.states = <<>>
    /\ result.val.final_state = Ok([id |-> 2, ket |-> <<0, 1>>])

\* C18: the copy requirement is the OR of the requires_copy flags of the
\* processors registered so far and never returns to false; an add copies
\* the state exactly when it is true, every processor of the call is then
\* given that one copy, and otherwise the very object passed to add.
C18_CopyRequirement ==
    /\ [](IsOk(result) =>
             (Len(Extras(result.val)) = 0 =>
                 result.val.state_processors_require_copy
                     = StoresFinalState(result.val)))
    /\ [][op'.name = "add_processor" =>
             result'.val.state_processors_require_copy
                 = (result.val.state_processors_require_copy \/ op'.k = 1)]_vars
    /\ [][IsOk(result) =>
             (result.val.state_processors_require_copy
                 => result'.val.state_processors_require_copy)]_vars
    /\ [][op'.name = "add" =>
             LET before == result.val
                 after == result'.val
                 flag == before.state_processors_require_copy
             IN  /\ after.state_processors_require_copy = flag
                 /\ after.ncopy = (IF flag THEN 1 ELSE 0)
                 /\ after.ncopies = before.ncopies + after.ncopy
                 /\ ret' = None => Len(after.log) = Len(before.state_processors)
                 /\ \A j \in 1..Len(after.log) :
                       after.log[j].sid = (IF flag THEN before.ncopies + 1 ELSE 0)]_vars

C18_Witness ==
    /\ IsOk(result)
    /\ op.name = "add" /\ ret = None
    /\ ctor.options.store_states = "None" /\ ~ctor.options.store_final_state
    /\ ctor.e_ops = BatchEOps
    /\ Len(result.val.times) = 2
    /\ result.val.ncopies = 1
    /\ Len(result.val.log) = 3
    /\ \A j \in 1..3 : result.val.log[j].sid = 1


\* ------------------------------------------ batches added in any order
\* the paths of such a batch: up, down, and staying at the middle level
OrderPaths == {<<1, 2, 3>>, <<3, 2, 1>>, <<2, 2, 2>>}

\* the options of its runs: every state kept, nothing kept, the final state
\* only
OrderOptions ==
    {[store_states |-> "True", store_final_state |-> FALSE],
     [store_states |-> "None", store_final_state |-> FALSE],
     [store_states |-> "False", store_final_state |-> TRUE]}

NextOrder ==
    \/ \E o \in OrderOptions : \E p \in OrderPaths : Add(Run(o, p))
    \/ M_average_states
    \/ M_average_final_state
    \/ M_average_expect
    \/ M_std_expect
    \/ M_photocurrent
    \/ A_average_states
    \/ A_average_final_state
    \/ A_average_expect
    \/ A_std_expect
    \/ A_photocurrent

SpecOrder == CollapseInit /\ [][NextOrder]_vars

\* the aggregators after the trajectories of a sequence are added in order
RECURSIVE AggregateM(_, _)
AggregateM(trajs, n) ==
    IF n = 0 THEN MultiTrajResult_init(NumCOps)
    ELSE MultiTrajResult_add(AggregateM(trajs, n - 1), trajs[n])

RECURSIVE AggregateA(_, _)
AggregateA(trajs, n) ==
    IF n = 0 THEN MultiTrajResultAveraged_init(NumCOps)
    ELSE MultiTrajResultAveraged_add(AggregateA(trajs, n - 1), trajs[n]).self

\* the orders in which n trajectories can be added
Orders(n) == {f \in [1..n -> 1..n] : \A i, j \in 1..n : f[i] = f[j] => i = j}

\* what the order must not change, for each aggregator
StatisticsM(self) ==
    <<MultiTrajResult_average_states(self),
      MultiTrajResult_average_final_state(self),
      MultiTrajResult_average_expect(self),
      MultiTrajResult_std_expect(self),
      MultiTrajResult_photocurrent(self)>>

StatisticsA(self) ==
    <<MultiTrajResultAveraged_average_states(self),
      MultiTrajResultAveraged_average_final_state(self),
      MultiTrajResultAveraged_average_expect(self),
      MultiTrajResultAveraged_std_expect(self),
      MultiTrajResultAveraged_photocurrent(self)>>

TrajectoryWithStats(r, collapse, stats) ==
    [times |-> r.times,
     states |-> r.states,
     final_state |-> r.final_state,
     e_keys |-> r.e_keys,
     expect |-> Result_expect(r),
     collapse |-> collapse,
     stats |-> stats]

\* the finished run number i of CollapseRuns, its stats naming the run
TemplateRun(i) ==
    TrajectoryWithStats(
        RecordOn(Result_init(BatchEOps,
                             [store_states |-> "None",
                              store_final_state |-> FALSE]).val,
                 CollapseRuns[i].times, Level(1), Len(CollapseRuns[i].times)),
        CollapseRuns[i].collapse,
        [solver |-> "mcsolve", run |-> i])

MultiTrajResult_times(self) ==
    IF Len(self.trajectories) = 0 THEN Raise("IndexError")
    ELSE Ok(self.trajectories[1].times)

MultiTrajResult_run_stats(self) ==
    IF Len(self.trajectories) = 0 THEN Raise("IndexError")
    ELSE Ok(self.trajectories[1].stats)

MultiTrajResultAveraged_times(self) ==
    IF IsNone(self.trajectories) THEN Raise("AttributeError")
    ELSE Ok(self.trajectories.val.times)

MultiTrajResultAveraged_run_stats(self) ==
    IF IsNone(self.trajectories) THEN Raise("AttributeError")
    ELSE Ok(self.trajectories.val.stats)

\* the scheduler hands the finished run number i to both aggregators
AddTemplateRun(i) ==
    /\ Len(multi.trajectories) < MaxTraj
    /\ multi' = MultiTrajResult_add(multi, TemplateRun(i))
    /\ LET a == MultiTrajResultAveraged_add(averaged, TemplateRun(i))
       IN  averaged' = a.self /\ ret' = a.out
    /\ op' = Call("both", "add", i)
    /\ UNCHANGED <<options, ctor, result>>

M_times == Read("multi", "times", 0, MultiTrajResult_times(multi))
M_run_stats == Read("multi", "run_stats", 0, MultiTrajResult_run_stats(multi))
A_times == Read("averaged", "times", 0, MultiTrajResultAveraged_times(averaged))
A_run_stats ==
    Read("averaged", "run_stats", 0, MultiTrajResultAveraged_run_stats(averaged))

NextTemplate ==
    \/ \E i \in 1..Len(CollapseRuns) : AddTemplateRun(i)
    \/ M_times
    \/ M_run_stats
    \/ M_photocurrent
    \/ A_times
    \/ A_run_stats
    \/ A_photocurrent

SpecTemplate == CollapseInit /\ [][NextTemplate]_vars

\* C21: the streaming aggregator keeps one trajectory record: the first add
\* makes the trajectory added the template, no later add replaces it or
\* stores another record, and times, run_stats and the grid of the
\* photocurrent histogram are those of the first trajectory added.
C21_StreamingTemplate ==
    /\ [](DOMAIN averaged = DOMAIN MultiTrajResultAveraged_init(NumCOps))
    /\ [](averaged.num = 0 <=> IsNone(averaged.trajectories))
    /\ [][op'.name = "add" =>
             /\ averaged.num = 0 => averaged'.trajectories = Ok(TemplateRun(op'.k))
             /\ averaged.num > 0 => averaged'.trajectories = averaged.trajectories]_vars
    /\ [](averaged.num >= 1 =>
             LET first == averaged.trajectories.val
                 p == MultiTrajResultAveraged_photocurrent(averaged)
             IN  /\ first = Added[1]
                 /\ MultiTrajResultAveraged_times(averaged) = Ok(first.times)
                 /\ MultiTrajResultAveraged_run_stats(averaged) = Ok(first.stats)
                 /\ IsOk(p)
                 /\ \A c \in 1..NumCOps : \A j \in 1..(Len(first.times) - 1) :
                       p.val[c][j][1] * (first.times[j + 1] - first.times[j])
                                      * averaged.num
                           = EventsIn(Added, c - 1, first.times, j) * p.val[c][j][2])

C21_Witness ==
    /\ op.obj = "averaged" /\ op.name = "times"
    /\ averaged.num = 2
    /\ Added[1].times = GridB /\ Added[2].times = GridA
    /\ averaged.trajectories.val.stats.run = 5
    /\ ret = Ok(GridB)


\* the least number of stored states among the first n trajectories
RECURSIVE MinStates(_, _)
MinStates(trajs, n) ==
    IF n = 1 THEN Len(trajs[1].states)
    ELSE Min(MinStates(trajs, n - 1), Len(trajs[n].states))

\* avg is, entry by entry, the sum of the promoted j-th states of the
\* trajectories divided by their number, for as many entries as the
\* shortest of them has states
IsZippedAverage(avg, trajs) ==
    /\ IsOk(avg)
    /\ Len(avg.val) = MinStates(trajs, Len(trajs))
    /\ \A j \in 1..Len(avg.val) : \A e \in 1..4 :
          /\ Len(avg.val[j][e]) = 2
          /\ avg.val[j][e][1] * Len(trajs)
                = StateEntrySum(trajs, j, e, Len(trajs)) * avg.val[j][e][2]

\* two of the trajectories have different numbers of stored states
Mismatched(trajs) ==
    \E a, b \in 1..Len(trajs) : Len(trajs[a].states) # Len(trajs[b].states)

\* C22: when trajectories with different numbers of stored states are
\* added, no error is raised and average_states of either aggregator has as
\* many entries as the shortest of the trajectories added has states, entry
\* j being the sum of their promoted j-th states divided by their number;
\* once the running sum of the streaming aggregator is empty it stays so.
C22_ZipToShortest ==
    /\ [][(op'.name = "add" /\ Mismatched(multi'.trajectories)) =>
             ret' = None]_vars
    /\ [](Mismatched(Added) =>
             /\ IsZippedAverage(MultiTrajResult_average_states(multi), Added)
             /\ IsZippedAverage(MultiTrajResultAveraged_average_states(averaged),
                                Added))
    /\ [][(op'.name = "add" /\ averaged.sum_states = Ok(<<>>)) =>
             averaged'.sum_states = Ok(<<>>)]_vars

\* ------------------------------------------- reads interleaved with adds
\* what a read returns on given aggregators
ReadValue(o, m, a) ==
    IF o.obj = "multi" THEN
        CASE o.name = "runs_states" -> MultiTrajResult_runs_states(m)
          [] o.name = "average_states" -> MultiTrajResult_average_states(m)
          [] o.name = "runs_final_states" -> MultiTrajResult_runs_final_states(m)
          [] o.name = "average_final_state" ->
                 MultiTrajResult_average_final_state(m)
          [] o.name = "steady_state" -> MultiTrajResult_steady_state(m)
          [] o.name = "average_expect" -> MultiTrajResult_average_expect(m)
          [] o.name = "std_expect" -> MultiTrajResult_std_expect(m)
          [] o.name = "runs_expect" -> MultiTrajResult_runs_expect(m)
          [] o.name = "expect_traj_avg" -> MultiTrajResult_expect_traj_avg(m, o.k)
          [] o.name = "expect_traj_std" -> MultiTrajResult_expect_traj_std(m, o.k)
          [] o.name = "photocurrent" -> MultiTrajResult_photocurrent(m)
    ELSE
        CASE o.name = "runs_states" -> MultiTrajResultAveraged_runs_states(a)
          [] o.name = "average_states" -> MultiTrajResultAveraged_average_states(a)
          [] o.name = "runs_final_states" ->
                 MultiTrajResultAveraged_runs_final_states(a)
          [] o.name = "average_final_state" ->
                 MultiTrajResultAveraged_average_final_state(a)
          [] o.name = "steady_state" -> MultiTrajResultAveraged_steady_state(a)
          [] o.name = "average_expect" -> MultiTrajResultAveraged_average_expect(a)
          [] o.name = "std_expect" -> MultiTrajResultAveraged_std_expect(a)
          [] o.name = "runs_expect" -> MultiTrajResultAveraged_runs_expect(a)
          [] o.name = "expect_traj_avg" ->
                 MultiTrajResultAveraged_expect_traj_avg(a, o.k)
          [] o.name = "expect_traj_std" ->
                 MultiTrajResultAveraged_expect_traj_std(a, o.k)
          [] o.name = "photocurrent" -> MultiTrajResultAveraged_photocurrent(a)

IsRead == op.name \notin {"init", "add"}

\* the next trajectory, whichever it is, would be taken by both aggregators
AddAccepted ==
    \A p \in Paths :
        LET a == MultiTrajResultAveraged_add(averaged, Run(options, p))
        IN  /\ a.out = None
            /\ a.self.num = averaged.num + 1
            /\ Len(MultiTrajResult_add(multi, Run(options, p)).trajectories) = N + 1

\* C23: an aggregator has no closed state: every add is accepted whatever
\* reads came before it, a read changes no part of either aggregator, and
\* what a read returns after n adds is what it returns on the aggregator
\* built by those n adds with no read in between.
C23_NoClosedState ==
    /\ [](N >= 1 => AddAccepted)
    /\ [][op'.name = "add" => ret' = None /\ averaged'.num = N + 1]_vars
    /\ [][op'.name # "add" => multi' = multi /\ averaged' = averaged]_vars
    /\ [](IsRead =>
             ret = ReadValue(op, AggregateM(Added, N), AggregateA(Added, N)))

\* a read of the running state average after one add, with the next add
\* still accepted
C23_Witness ==
    /\ op.obj = "averaged"
    /\ op.name = "average_states"
    /\ N = 1
    /\ IsOk(ret)
    /\ AddAccepted

====
